---- MODULE Spec2Model ----
(***************************************************************************)
(* A model of the ryu schema validator: the RyuSchema base class, the      *)
(* RyuString / RyuNum / RyuBool primitives with their chain methods, the   *)
(* RyuObj / RyuArr composites, the prototype-based optional() view and the *)
(* parse / safeParse protocol.                                             *)
(*                                                                         *)
(* Schema instances live in a heap (a sequence of objects).  An object has *)
(* a class, a prototype link (0 for an instance made by a constructor, the *)
(* base's id for a view made by Object.create) and its own properties.     *)
(* Property reads walk the prototype chain as JavaScript does; property    *)
(* writes create or replace an own property; a write THROUGH a property    *)
(* (this._min.val = len) changes the object the property refers to, which  *)
(* is the one held by the nearest object of the chain owning the property. *)
(***************************************************************************)
EXTENDS Integers, Sequences, FiniteSets, TLC

VARIABLES heap, last, chained, run

vars == <<heap, last, chained, run>>

-----------------------------------------------------------------------------
(* Bounds of the model.                                                    *)

\* Number of schema objects (instances and views) a run allocates.
MaxNodes == 3

\* Number of optional() views a run derives.
MaxViews == 1

\* Number of chain (configuration) calls a run makes.
MaxChain == 2

-----------------------------------------------------------------------------
(* JavaScript values.                                                      *)

Undefined == [t |-> "undefined"]

Null == [t |-> "null"]

Str(s) == [t |-> "string", s |-> s]

Num(n) == [t |-> "number", n |-> n]

Bool(b) == [t |-> "boolean", b |-> b]

\* A plain object: props is a function from property names to values.
Obj(props) == [t |-> "object", props |-> props]

\* An array: elems is the sequence of its elements (index i is elems[i+1]).
Arr(elems) == [t |-> "array", elems |-> elems]

\* A reference to the schema object heap[n].
Ref(n) == [t |-> "schema", ref |-> n]

\* An object literal used as a shape: its fields in insertion order.
Shape(fields) == [t |-> "shape", fields |-> fields]

NoProps == [k \in {} |-> Undefined]

\* typeof v
TypeOf(v) ==
    CASE v.t \in {"null", "array", "shape", "schema"} -> "object"
      [] OTHER -> v.t

\* ToBoolean(v): the test of `if (v)`, `!v` and `v ? a : b`.
Truthy(v) ==
    CASE v.t \in {"undefined", "null"} -> FALSE
      [] v.t = "string" -> v.s # ""
      [] v.t = "number" -> v.n # 0
      [] v.t = "boolean" -> v.b
      [] OTHER -> TRUE

\* v === undefined || v === null
Nullish(v) == v.t \in {"undefined", "null"}

\* a ?? b
Coalesce(a, b) == IF Nullish(a) THEN b ELSE a

\* obj[key] on a plain object (a missing property reads undefined).
GetProp(obj, key) == IF key \in DOMAIN obj.props THEN obj.props[key] ELSE Undefined

-----------------------------------------------------------------------------
(* The heap of schema objects and the prototype chain.                     *)

NodeIds == 1..MaxNodes

Allocated(h) == 1..Len(h)

\* A property read that does not follow the prototype link.
GetOwn(h, n, prop) ==
    IF prop \in DOMAIN h[n].own THEN h[n].own[prop] ELSE Undefined

RECURSIVE Get(_, _, _)
\* this.prop: the own property, else the prototype's, else undefined.
Get(h, n, prop) ==
    IF prop \in DOMAIN h[n].own THEN h[n].own[prop]
    ELSE IF h[n].proto # 0 THEN Get(h, h[n].proto, prop)
    ELSE Undefined

RECURSIVE Owner(_, _, _)
\* The object of n's prototype chain whose own property this.prop reads (0 if none).
Owner(h, n, prop) ==
    IF prop \in DOMAIN h[n].own THEN n
    ELSE IF h[n].proto # 0 THEN Owner(h, h[n].proto, prop)
    ELSE 0

\* this.prop = v: creates or replaces an own property of n.
SetOwn(h, n, prop, v) == [h EXCEPT ![n].own = (prop :> v) @@ @]

\* this.prop.field = v: changes the object this.prop refers to.
SetField(h, n, prop, field, v) ==
    LET o == Owner(h, n, prop) IN
    [h EXCEPT ![o].own[prop] = Obj((field :> v) @@ @.props)]

\* new C(): a fresh instance with the own properties the constructor sets.
NewNode(h, class, own) == Append(h, [class |-> class, proto |-> 0, own |-> own])

-----------------------------------------------------------------------------
(* Outcomes of a call: a returned value or a thrown value.                 *)

Return(v) == [ok |-> TRUE, value |-> v]

Throw(e) == [ok |-> FALSE, error |-> e]

\* The thrown object literal { code, message, path, stack }.  The stack is a
\* debugging trace of the engine and is not modelled.
RyuError(code, message, path) ==
    Obj(("code" :> Num(code)) @@ ("message" :> message) @@ ("path" :> path))

\* The TypeError the engine raises for a call of undefined or a read through
\* undefined/null.
TypeError(message) == Obj(("name" :> Str("TypeError")) @@ ("message" :> Str(message)))

\* A parameter with a default value: the default applies when the argument is
\* omitted or undefined.
Default(arg, dflt) == IF arg = Undefined THEN dflt ELSE arg

RootPath == Arr(<<Str("value")>>)

EmptyPath == Arr(<<>>)

\* [...path, seg]
Extend(path, seg) == Arr(Append(path.elems, seg))

-----------------------------------------------------------------------------
(* String primitives used by RyuString.parse.                              *)

CharAt(s, i) == SubSeq(s, i, i)

\* s.includes(sub)
JsIncludes(s, sub) ==
    \E i \in 1..(Len(s) + 1) :
        /\ i + Len(sub) - 1 <= Len(s)
        /\ SubSeq(s, i, i + Len(sub) - 1) = sub

\* s.startsWith(sub)
JsStartsWith(s, sub) == Len(sub) <= Len(s) /\ SubSeq(s, 1, Len(sub)) = sub

\* s.endsWith(sub)
JsEndsWith(s, sub) ==
    Len(sub) <= Len(s) /\ SubSeq(s, Len(s) - Len(sub) + 1, Len(s)) = sub

Lower ==
    {"a", "b", "c", "d", "e", "f", "g", "h", "i", "j", "k", "l", "m",
     "n", "o", "p", "q", "r", "s", "t", "u", "v", "w", "x", "y", "z"}

Upper ==
    {"A", "B", "C", "D", "E", "F", "G", "H", "I", "J", "K", "L", "M",
     "N", "O", "P", "Q", "R", "S", "T", "U", "V", "W", "X", "Y", "Z"}

Digit == {"0", "1", "2", "3", "4", "5", "6", "7", "8", "9"}

Alpha == Lower \cup Upper

\* [A-Za-z0-9._%+-]
EmailLocalChars == Alpha \cup Digit \cup {".", "_", "%", "+", "-"}

\* [A-Za-z0-9.-]
EmailDomainChars == Alpha \cup Digit \cup {".", "-"}

\* [\w-]
UrlLabelChars == Alpha \cup Digit \cup {"_", "-"}

\* [\w-./?%&=]
UrlPathChars == UrlLabelChars \cup {".", "/", "?", "%", "&", "="}

\* Every character of s[from..to] is in class.
AllIn(s, from, to, class) == \A i \in from..to : CharAt(s, i) \in class

\* /^[A-Za-z0-9._%+-]+@[A-Za-z0-9.-]+\.[A-Za-z]{2,}$/.test(s)
EmailTest(s) ==
    \E at \in 2..Len(s), dot \in 4..Len(s) :
        /\ CharAt(s, at) = "@"
        /\ CharAt(s, dot) = "."
        /\ AllIn(s, 1, at - 1, EmailLocalChars)
        /\ dot - at >= 2
        /\ AllIn(s, at + 1, dot - 1, EmailDomainChars)
        /\ Len(s) - dot >= 2
        /\ AllIn(s, dot + 1, Len(s), Alpha)

\* ([\w-]+\.)+[\w-]{2,} matches the whole of s[from..to]: labels of [\w-]
\* separated by dots, at least two labels, none empty, the last of 2 or more.
UrlHost(s, from, to) ==
    /\ to - from >= 3
    /\ AllIn(s, from, to, UrlLabelChars \cup {"."})
    /\ \E i \in from..to : CharAt(s, i) = "."
    /\ CharAt(s, from) # "."
    /\ CharAt(s, to) # "." /\ CharAt(s, to - 1) # "."
    /\ \A i \in from..(to - 1) : ~(CharAt(s, i) = "." /\ CharAt(s, i + 1) = ".")

\* /^(https?:\/\/)?([\w-]+\.)+[\w-]{2,}(\/[\w-./?%&=]*)?$/.test(s)
UrlTest(s) ==
    \E from \in {1, 8, 9} :
        /\ \/ from = 1
           \/ from = 8 /\ JsStartsWith(s, "http://")
           \/ from = 9 /\ JsStartsWith(s, "https://")
        /\ \E to \in from..Len(s) :
              /\ UrlHost(s, from, to)
              /\ \/ to = Len(s)
                 \/ /\ CharAt(s, to + 1) = "/"
                    /\ AllIn(s, to + 2, Len(s), UrlPathChars)

-----------------------------------------------------------------------------
(* Chain (configuration) methods.  Each returns the heap after the call    *)
(* and the call's outcome: the schema it returns or the error it throws.   *)

Called(h, out) == [heap |-> h, out |-> out]

\* `${v}` for a number or a string.
Template(v) == IF v.t = "number" THEN ToString(v.n) ELSE v.s

\* if (!this.prop) this.prop = { errorMsg: "" };
\* this.prop.val = val;
\* errorMsg ? this.prop.errorMsg = errorMsg : this.prop.errorMsg = <default>;
SetConstraint(h, this, prop, val, errorMsg, prefix, suffix) ==
    LET h1 == IF ~Truthy(Get(h, this, prop))
              THEN SetOwn(h, this, prop, Obj("errorMsg" :> Str("")))
              ELSE h
        h2 == SetField(h1, this, prop, "val", val)
        dflt == Str(prefix \o Template(GetProp(Get(h2, this, prop), "val")) \o suffix)
    IN  SetField(h2, this, prop, "errorMsg", IF Truthy(errorMsg) THEN errorMsg ELSE dflt)

ConfigError(message) == RyuError(2, Str(message), EmptyPath)

\* RyuString._minImpl
StringMin(h, this, len, errorMsg) ==
    IF Get(h, this, "constraintType") = Str("length")
    THEN Called(h, Throw(ConfigError("Cannot use min() when a fixed length() has already been set.")))
    ELSE Called(SetConstraint(SetOwn(h, this, "constraintType", Str("range")),
                              this, "_min", len, errorMsg, "String must have ", " characters"),
                Return(Ref(this)))

\* max() with its check against length() made after the assignments.
StringMaxLateCheck(h, this, len, errorMsg) ==
    LET set == SetConstraint(SetOwn(h, this, "constraintType", Str("range")),
                             this, "_max", len, errorMsg, "String must be less than ", " characters")
    IN  IF Get(h, this, "constraintType") = Str("length")
        THEN Called(set, Throw(ConfigError("Cannot use max() when a fixed length() has already been set.")))
        ELSE Called(set, Return(Ref(this)))

\* RyuString._maxImpl
StringMax(h, this, len, errorMsg) ==
    IF Get(h, this, "constraintType") = Str("length")
    THEN Called(h, Throw(ConfigError("Cannot use max() when a fixed length() has already been set.")))
    ELSE Called(SetConstraint(SetOwn(h, this, "constraintType", Str("range")),
                              this, "_max", len, errorMsg, "String must be less than ", " characters"),
                Return(Ref(this)))

\* length() without its configuration-time check against min()/max().
StringLengthUnchecked(h, this, len, errorMsg) ==
    Called(SetConstraint(SetOwn(h, this, "constraintType", Str("length")),
                         this, "_length", len, errorMsg, "String must contain ", " characters"),
           Return(Ref(this)))

\* RyuString._lengthImpl
StringLength(h, this, len, errorMsg) ==
    IF Get(h, this, "constraintType") = Str("range")
    THEN Called(h, Throw(ConfigError("Cannot use length() when min() or max() has already been set.")))
    ELSE Called(SetConstraint(SetOwn(h, this, "constraintType", Str("length")),
                              this, "_length", len, errorMsg, "String must contain ", " characters"),
                Return(Ref(this)))

\* RyuString.includes
StringIncludes(h, this, val, errorMsg) ==
    Called(SetConstraint(h, this, "_includes", val, errorMsg, "String must include ", ""),
           Return(Ref(this)))

\* RyuString.startsWith
StringStartsWith(h, this, val, errorMsg) ==
    Called(SetConstraint(h, this, "_startsWith", val, errorMsg, "String must start with ", ""),
           Return(Ref(this)))

\* RyuString.endsWith
StringEndsWith(h, this, val, errorMsg) ==
    Called(SetConstraint(h, this, "_endsWith", val, errorMsg, "String must end with ", ""),
           Return(Ref(this)))

\* RyuString.email
StringEmail(h, this, errorMsg) ==
    Called(SetOwn(h, this, "_email",
                  Obj(("regex" :> Str("email")) @@ ("errorMsg" :> Coalesce(errorMsg, Str("Invalid email"))))),
           Return(Ref(this)))

\* RyuString.url
StringUrl(h, this, errorMsg) ==
    Called(SetOwn(h, this, "_url",
                  Obj(("regex" :> Str("url")) @@ ("errorMsg" :> Coalesce(errorMsg, Str("Invalid url"))))),
           Return(Ref(this)))

\* RyuNum.min
NumMin(h, this, len, errorMsg) ==
    Called(SetConstraint(h, this, "_min", len, errorMsg, "Too small (min ", ")"),
           Return(Ref(this)))

\* RyuNum.max
NumMax(h, this, len, errorMsg) ==
    Called(SetConstraint(h, this, "_max", len, errorMsg, "Too large (max ", ")"),
           Return(Ref(this)))

\* if (!this.prop) this.prop = { errorMsg: "" };
\* this.prop.val = true;
\* errorMsg ? this.prop.errorMsg = errorMsg : this.prop.errorMsg = <default>;
SetSign(h, this, prop, errorMsg, dflt) ==
    LET h1 == IF ~Truthy(Get(h, this, prop))
              THEN SetOwn(h, this, prop, Obj("errorMsg" :> Str("")))
              ELSE h
        h2 == SetField(h1, this, prop, "val", Bool(TRUE))
    IN  SetField(h2, this, prop, "errorMsg", IF Truthy(errorMsg) THEN errorMsg ELSE Str(dflt))

\* RyuNum._positiveImpl
NumPositive(h, this, errorMsg) ==
    IF Get(h, this, "constraintType") = Str("negative")
    THEN Called(h, Throw(ConfigError("Cannot use positive() when negative() has already been set")))
    ELSE Called(SetSign(SetOwn(h, this, "constraintType", Str("positive")),
                        this, "_positive", errorMsg, "Should be positive"),
                Return(Ref(this)))

\* RyuNum._negativeImpl
NumNegative(h, this, errorMsg) ==
    IF Get(h, this, "constraintType") = Str("positive")
    THEN Called(h, Throw(ConfigError("Cannot use negative() when positive() has already been set")))
    ELSE Called(SetSign(SetOwn(h, this, "constraintType", Str("negative")),
                        this, "_negative", errorMsg, "Should be positive"),
                Return(Ref(this)))

\* if (!this.prop) this.prop = { errorMsg: "" };
\* this.prop.errorMsg = errorMsg ?? <default>;
SetFlag(h, this, prop, errorMsg, dflt) ==
    LET h1 == IF ~Truthy(Get(h, this, prop))
              THEN SetOwn(h, this, prop, Obj("errorMsg" :> Str("")))
              ELSE h
    IN  SetField(h1, this, prop, "errorMsg", Coalesce(errorMsg, Str(dflt)))

\* RyuBool._trueImpl
BoolTrue(h, this, errorMsg) ==
    IF Get(h, this, "constraintType") = Str("false")
    THEN Called(h, Throw(ConfigError("Cannot use true() when false() is already set")))
    ELSE Called(SetFlag(SetOwn(h, this, "constraintType", Str("true")),
                        this, "_true", errorMsg, "Should be true"),
                Return(Ref(this)))

\* RyuBool._falseImpl
BoolFalse(h, this, errorMsg) ==
    IF Get(h, this, "constraintType") = Str("true")
    THEN Called(h, Throw(ConfigError("Cannot use false() when true() is already set")))
    ELSE Called(SetFlag(SetOwn(h, this, "constraintType", Str("false")),
                        this, "_false", errorMsg, "Should be false"),
                Return(Ref(this)))

\* RyuSchema.optional: Object.create(this) with an own _optional = true.
Optional(h, this) ==
    Called(Append(h, [class |-> h[this].class, proto |-> this,
                      own |-> ("_optional" :> Bool(TRUE))]),
           Return(Ref(Len(h) + 1)))

-----------------------------------------------------------------------------
(* parse and safeParse.                                                    *)

\* A validation failure thrown with the configuration code 2.
FailWithCode2(message, path) == Throw(RyuError(2, message, path))

\* throw { code: 1, message, path, stack }
Fail(message, path) == Throw(RyuError(1, message, path))

\* this.prop.errorMsg
ErrorMsgOf(h, this, prop) == GetProp(Get(h, this, prop), "errorMsg")

\* this.prop.val
ValOf(h, this, prop) == GetProp(Get(h, this, prop), "val")

\* this.prop && <violated>: the constraint is configured and the input breaks it.
Active(h, this, prop) == Truthy(Get(h, this, prop))

\* RyuString.parse with the min() test written `data.length <= this._min.val`.
StringParseMinInclusive(h, this, data, pathArg) ==
    LET path == Default(pathArg, RootPath)
        s == data.s
    IN  IF TypeOf(data) # "string" THEN Fail(Str("Expected string"), path)
        ELSE IF Active(h, this, "_min") /\ Len(s) <= ValOf(h, this, "_min").n
            THEN Fail(ErrorMsgOf(h, this, "_min"), path)
        ELSE IF Active(h, this, "_max") /\ Len(s) > ValOf(h, this, "_max").n
            THEN Fail(ErrorMsgOf(h, this, "_max"), path)
        ELSE IF Active(h, this, "_length") /\ Len(s) # ValOf(h, this, "_length").n
            THEN Fail(ErrorMsgOf(h, this, "_length"), path)
        ELSE IF Active(h, this, "_includes") /\ ~JsIncludes(s, ValOf(h, this, "_includes").s)
            THEN Fail(ErrorMsgOf(h, this, "_includes"), path)
        ELSE IF Active(h, this, "_startsWith") /\ ~JsStartsWith(s, ValOf(h, this, "_startsWith").s)
            THEN Fail(ErrorMsgOf(h, this, "_startsWith"), path)
        ELSE IF Active(h, this, "_endsWith") /\ ~JsEndsWith(s, ValOf(h, this, "_endsWith").s)
            THEN Fail(ErrorMsgOf(h, this, "_endsWith"), path)
        ELSE IF Active(h, this, "_email") /\ ~EmailTest(s)
            THEN Fail(ErrorMsgOf(h, this, "_email"), path)
        ELSE IF Active(h, this, "_url") /\ ~UrlTest(s)
            THEN Fail(ErrorMsgOf(h, this, "_url"), path)
        ELSE Return(data)

\* RyuString.parse (overrides RyuSchema.parse)
StringParse(h, this, data, pathArg) ==
    LET path == Default(pathArg, RootPath)
        s == data.s
    IN  IF TypeOf(data) # "string" THEN Fail(Str("Expected string"), path)
        ELSE IF Active(h, this, "_min") /\ Len(s) < ValOf(h, this, "_min").n
            THEN Fail(ErrorMsgOf(h, this, "_min"), path)
        ELSE IF Active(h, this, "_max") /\ Len(s) > ValOf(h, this, "_max").n
            THEN Fail(ErrorMsgOf(h, this, "_max"), path)
        ELSE IF Active(h, this, "_length") /\ Len(s) # ValOf(h, this, "_length").n
            THEN Fail(ErrorMsgOf(h, this, "_length"), path)
        ELSE IF Active(h, this, "_includes") /\ ~JsIncludes(s, ValOf(h, this, "_includes").s)
            THEN Fail(ErrorMsgOf(h, this, "_includes"), path)
        ELSE IF Active(h, this, "_startsWith") /\ ~JsStartsWith(s, ValOf(h, this, "_startsWith").s)
            THEN Fail(ErrorMsgOf(h, this, "_startsWith"), path)
        ELSE IF Active(h, this, "_endsWith") /\ ~JsEndsWith(s, ValOf(h, this, "_endsWith").s)
            THEN Fail(ErrorMsgOf(h, this, "_endsWith"), path)
        ELSE IF Active(h, this, "_email") /\ ~EmailTest(s)
            THEN Fail(ErrorMsgOf(h, this, "_email"), path)
        ELSE IF Active(h, this, "_url") /\ ~UrlTest(s)
            THEN Fail(ErrorMsgOf(h, this, "_url"), path)
        ELSE Return(data)

\* The sign test of RyuNum.parse for positive(): data < 0 is the violation.
PositiveViolated(n) == n < 0

\* The sign test of RyuNum.parse for negative(): data >= 0 is the violation.
NegativeViolated(n) == n >= 0

\* RyuNum.parse (overrides RyuSchema.parse)
NumParse(h, this, data, pathArg) ==
    LET path == Default(pathArg, RootPath)
        n == data.n
    IN  IF TypeOf(data) # "number" THEN Fail(Str("Expected number"), path)
        ELSE IF Active(h, this, "_min") /\ n < ValOf(h, this, "_min").n
            THEN Fail(ErrorMsgOf(h, this, "_min"), path)
        ELSE IF Active(h, this, "_max") /\ n > ValOf(h, this, "_max").n
            THEN Fail(ErrorMsgOf(h, this, "_max"), path)
        ELSE IF Active(h, this, "_positive") /\ PositiveViolated(n)
            THEN Fail(ErrorMsgOf(h, this, "_positive"), path)
        ELSE IF Active(h, this, "_negative") /\ NegativeViolated(n)
            THEN Fail(ErrorMsgOf(h, this, "_negative"), path)
        ELSE Return(data)

\* RyuBool.internalParse
BoolInternalParse(h, this, data, pathArg) ==
    LET path == Default(pathArg, RootPath)
    IN  IF TypeOf(data) # "boolean" THEN Fail(Str("Expected boolean"), path)
        ELSE IF Active(h, this, "_true") /\ data.b # TRUE
            THEN Fail(ErrorMsgOf(h, this, "_true"), path)
        ELSE IF Active(h, this, "_false") /\ data.b # FALSE
            THEN Fail(ErrorMsgOf(h, this, "_false"), path)
        ELSE Return(data)

\* The decimal value of a string of digits.
RECURSIVE DecimalValue(_)
DecimalValue(k) ==
    IF Len(k) = 0 THEN 0
    ELSE 10 * DecimalValue(SubSeq(k, 1, Len(k) - 1))
         + (CHOOSE d \in 0..9 : ToString(d) = CharAt(k, Len(k)))

\* An integer-like property name ("0", "7", "12"): a canonical array index.
IsIndexKey(k) ==
    /\ Len(k) > 0
    /\ AllIn(k, 1, Len(k), Digit)
    /\ (Len(k) > 1 => CharAt(k, 1) # "0")

\* data[key] for a non-null data with typeof data === "object".
Index(data, key) ==
    IF data.t = "object" THEN GetProp(data, key)
    ELSE IF data.t = "array"
    THEN IF key = "length" THEN Num(Len(data.elems))
         ELSE IF IsIndexKey(key) /\ DecimalValue(key) < Len(data.elems)
         THEN data.elems[DecimalValue(key) + 1]
         ELSE Undefined
    ELSE Undefined

\* The positions of fields a `for (const key in shape)` loop visits, in order:
\* integer-like names in ascending numeric order, then the other names in
\* insertion order.
RECURSIVE SortedIndexKeys(_, _)
SortedIndexKeys(fields, left) ==
    IF left = {} THEN <<>>
    ELSE LET m == CHOOSE i \in left :
                    \A j \in left : DecimalValue(fields[i].key) <= DecimalValue(fields[j].key)
         IN  <<m>> \o SortedIndexKeys(fields, left \ {m})

ForIn(fields) ==
    LET idx == {i \in 1..Len(fields) : IsIndexKey(fields[i].key)}
    IN  SortedIndexKeys(fields, idx)
        \o SelectSeq([i \in 1..Len(fields) |-> i], LAMBDA i : i \notin idx)

\* A catch clause that sets err.path whether or not the error carries one.
AttachPathAlways(err, path) == Obj(("path" :> path) @@ err.props)

\* catch (err) { if (!err.path) err.path = path; throw err; }
AttachPath(err, path) ==
    IF ~Truthy(GetProp(err, "path"))
    THEN Obj(("path" :> path) @@ err.props)
    ELSE err

RECURSIVE Parse(_, _, _, _)
RECURSIVE ObjFields(_, _, _, _, _, _, _)
RECURSIVE ArrMap(_, _, _, _, _, _)

\* The loop of RyuObj.parse over the shape's keys, from position i of order,
\* with result the fields parsed so far.
ObjFields(h, fields, order, data, path, i, result) ==
    IF i > Len(order) THEN Return(Obj(result))
    ELSE LET key == fields[order[i]].key
             schema == fields[order[i]].schema
             r == IF Nullish(schema) THEN Return(Undefined)
                  ELSE Parse(h, schema.ref, Index(data, key), Extend(path, Str(key)))
         IN  IF r.ok
             THEN ObjFields(h, fields, order, data, path, i + 1, (key :> r.value) @@ result)
             ELSE Throw(AttachPath(r.error, Extend(path, Str(key))))

\* RyuObj.parse with `const result = { ...data }` for `const result = {}`.
ObjParseSpread(h, this, data, pathArg) ==
    LET path == Default(pathArg, EmptyPath)
        fields == Get(h, this, "shape").fields
    IN  IF TypeOf(data) # "object" \/ ~Truthy(data)
        THEN Fail(Str("Expected object"), RootPath)
        ELSE ObjFields(h, fields, ForIn(fields), data, path, 1,
                       IF data.t = "object" THEN data.props ELSE NoProps)

\* RyuObj.parse (overrides RyuSchema.parse)
ObjParse(h, this, data, pathArg) ==
    LET path == Default(pathArg, EmptyPath)
        fields == Get(h, this, "shape").fields
    IN  IF TypeOf(data) # "object" \/ ~Truthy(data)
        THEN Fail(Str("Expected object"), RootPath)
        ELSE ObjFields(h, fields, ForIn(fields), data, path, 1, NoProps)

\* A map that collects its results in reverse order (unshift for push).
RECURSIVE ArrMapReversed(_, _, _, _, _, _)
ArrMapReversed(h, this, data, path, i, result) ==
    IF i > Len(data.elems) THEN Return(Arr(result))
    ELSE LET schema == Get(h, this, "_ryuSchema")
             seg == Num(i - 1)
             r == IF Nullish(schema) THEN Return(Undefined)
                  ELSE Parse(h, schema.ref, data.elems[i], Extend(path, seg))
         IN  IF r.ok
             THEN ArrMapReversed(h, this, data, path, i + 1, <<r.value>> \o result)
             ELSE Throw(AttachPath(r.error, Extend(path, seg)))

\* data.map((v, i) => ...) of RyuArr.internalParse from index i - 1, with
\* result the elements mapped so far.
ArrMap(h, this, data, path, i, result) ==
    IF i > Len(data.elems) THEN Return(Arr(result))
    ELSE LET schema == Get(h, this, "_ryuSchema")
             seg == Num(i - 1)
             r == IF Nullish(schema) THEN Return(Undefined)
                  ELSE Parse(h, schema.ref, data.elems[i], Extend(path, seg))
         IN  IF r.ok
             THEN ArrMap(h, this, data, path, i + 1, Append(result, r.value))
             ELSE Throw(AttachPath(r.error, Extend(path, seg)))

\* RyuArr.internalParse
ArrInternalParse(h, this, data, pathArg) ==
    LET path == Default(pathArg, RootPath)
    IN  IF data.t # "array" THEN Fail(Get(h, this, "_errorMsg"), path)
        ELSE ArrMap(h, this, data, path, 1, <<>>)

\* this.internalParse(data, path): the subclass's method.  RyuString, RyuNum
\* and RyuObj define none.
InternalParse(h, this, data, path) ==
    CASE h[this].class = "RyuBool" -> BoolInternalParse(h, this, data, path)
      [] h[this].class = "RyuArr" -> ArrInternalParse(h, this, data, path)
      [] OTHER -> Throw(TypeError("this.internalParse is not a function"))

\* RyuSchema.parse with the optional test written `this._optional && !data`.
SchemaParseFalsy(h, this, data, pathArg) ==
    LET path == Default(pathArg, EmptyPath)
    IN  IF Truthy(Get(h, this, "_optional")) /\ ~Truthy(data)
        THEN Return(Undefined)
        ELSE InternalParse(h, this, data, path)

\* RyuSchema.parse
SchemaParse(h, this, data, pathArg) ==
    LET path == Default(pathArg, EmptyPath)
    IN  IF Truthy(Get(h, this, "_optional")) /\ Nullish(data)
        THEN Return(Undefined)
        ELSE InternalParse(h, this, data, path)

\* schema.parse(data, path): the method the object's class provides.
Parse(h, this, data, pathArg) ==
    CASE h[this].class = "RyuString" -> StringParse(h, this, data, pathArg)
      [] h[this].class = "RyuNum" -> NumParse(h, this, data, pathArg)
      [] h[this].class = "RyuObj" -> ObjParse(h, this, data, pathArg)
      [] OTHER -> SchemaParse(h, this, data, pathArg)

\* safeParse without its catch clause: a failure of parse escapes.
SafeParseUncaught(h, this, data) ==
    LET r == Parse(h, this, data,
                   IF Truthy(Get(h, this, "_isRootPrimitive")) THEN RootPath ELSE EmptyPath)
    IN  IF r.ok
        THEN Return(Obj(("data" :> Coalesce(r.value, Null))
                        @@ ("success" :> Bool(TRUE))
                        @@ ("error" :> Null)))
        ELSE r

\* safeParse with `data: parsed` in place of `data: parsed ?? null`.
SafeParseRaw(h, this, data) ==
    LET r == Parse(h, this, data,
                   IF Truthy(Get(h, this, "_isRootPrimitive")) THEN RootPath ELSE EmptyPath)
    IN  IF r.ok
        THEN Return(Obj(("data" :> r.value)
                        @@ ("success" :> Bool(TRUE))
                        @@ ("error" :> Null)))
        ELSE Return(Obj(("data" :> Null)
                        @@ ("success" :> Bool(FALSE))
                        @@ ("error" :> Obj(("code" :> Num(1))
                                           @@ ("message" :> Coalesce(GetProp(r.error, "message"),
                                                                     Str("Unknown error")))
                                           @@ ("path" :> GetProp(r.error, "path"))))))

\* safeParse whose failure envelope carries the rejected input as data.
SafeParseKeepsData(h, this, data) ==
    LET r == Parse(h, this, data,
                   IF Truthy(Get(h, this, "_isRootPrimitive")) THEN RootPath ELSE EmptyPath)
    IN  IF r.ok
        THEN Return(Obj(("data" :> Coalesce(r.value, Null))
                        @@ ("success" :> Bool(TRUE))
                        @@ ("error" :> Null)))
        ELSE Return(Obj(("data" :> data)
                        @@ ("success" :> Bool(FALSE))
                        @@ ("error" :> Obj(("code" :> Num(1))
                                           @@ ("message" :> Coalesce(GetProp(r.error, "message"),
                                                                     Str("Unknown error")))
                                           @@ ("path" :> GetProp(r.error, "path"))))))

\* safeParse that reports the path it handed to parse in place of the path
\* of the error it caught.
SafeParseOwnPath(h, this, data) ==
    LET path == IF Truthy(Get(h, this, "_isRootPrimitive")) THEN RootPath ELSE EmptyPath
        r == Parse(h, this, data, path)
    IN  IF r.ok
        THEN Return(Obj(("data" :> Coalesce(r.value, Null))
                        @@ ("success" :> Bool(TRUE))
                        @@ ("error" :> Null)))
        ELSE Return(Obj(("data" :> Null)
                        @@ ("success" :> Bool(FALSE))
                        @@ ("error" :> Obj(("code" :> Num(1))
                                           @@ ("message" :> Coalesce(GetProp(r.error, "message"),
                                                                     Str("Unknown error")))
                                           @@ ("path" :> path)))))

\* RyuSchema.safeParse
SafeParse(h, this, data) ==
    LET r == Parse(h, this, data,
                   IF Truthy(Get(h, this, "_isRootPrimitive")) THEN RootPath ELSE EmptyPath)
    IN  IF r.ok
        THEN Return(Obj(("data" :> Coalesce(r.value, Null))
                        @@ ("success" :> Bool(TRUE))
                        @@ ("error" :> Null)))
        ELSE IF Nullish(r.error)
        THEN Throw(TypeError("Cannot read properties of undefined (reading 'stack')"))
        ELSE Return(Obj(("data" :> Null)
                        @@ ("success" :> Bool(FALSE))
                        @@ ("error" :> Obj(("code" :> Num(1))
                                           @@ ("message" :> Coalesce(GetProp(r.error, "message"),
                                                                     Str("Unknown error")))
                                           @@ ("path" :> GetProp(r.error, "path"))))))

-----------------------------------------------------------------------------
(* The builder facade (the ryu namespace).                                 *)

\* The own properties the RyuSchema constructor and a primitive's field
\* initialisers set.
PrimitiveOwn == ("_optional" :> Bool(FALSE)) @@ ("_isRootPrimitive" :> Bool(TRUE))

\* ryu.string()
RyuStringNew(h) == Called(NewNode(h, "RyuString", PrimitiveOwn), Return(Ref(Len(h) + 1)))

\* ryu.number()
RyuNumNew(h) == Called(NewNode(h, "RyuNum", PrimitiveOwn), Return(Ref(Len(h) + 1)))

\* ryu.boolean()
RyuBoolNew(h) == Called(NewNode(h, "RyuBool", PrimitiveOwn), Return(Ref(Len(h) + 1)))

\* ryu.email(errorMsg)
RyuEmailNew(h, errorMsg) == StringEmail(RyuStringNew(h).heap, Len(h) + 1, errorMsg)

\* ryu.url(errorMsg)
RyuUrlNew(h, errorMsg) == StringUrl(RyuStringNew(h).heap, Len(h) + 1, errorMsg)

\* ryu.object(shape)
RyuObjNew(h, shape) ==
    Called(NewNode(h, "RyuObj", ("_optional" :> Bool(FALSE)) @@ ("shape" :> shape)),
           Return(Ref(Len(h) + 1)))

\* ryu.array(ryuSchema, errorMsg)
RyuArrNew(h, ryuSchema, errorMsg) ==
    Called(NewNode(h, "RyuArr",
                   ("_optional" :> Bool(FALSE))
                   @@ ("_ryuSchema" :> ryuSchema)
                   @@ ("_errorMsg" :> Coalesce(errorMsg, Str("Expected array")))),
           Return(Ref(Len(h) + 1)))

-----------------------------------------------------------------------------
(* Arguments the calls of a run are drawn from.                            *)

\* errorMsg arguments: omitted, the empty string, or a custom message.
ErrorMsgs == {Undefined, Str(""), Str("custom")}

\* errorMsg arguments of the facade's email, url and array.
FacadeMsgs == {Undefined, Str("custom")}

\* len arguments of RyuString.min / max / length.
Lens == {Num(2)}

\* val arguments of RyuString.includes / startsWith / endsWith.
Subs == {Str("b")}

\* len arguments of RyuNum.min / max.
Limits == {Num(1)}

\* Field names of object shapes.
Keys == {"a", "b", "1"}

\* Shapes over the schemas allocated so far: up to two fields, distinct names.
Shapes(h) ==
    LET field == [key : Keys, schema : {Ref(n) : n \in Allocated(h)}]
    IN  {Shape(<<>>)}
        \cup {Shape(<<f>>) : f \in field}
        \cup {Shape(<<p[1], p[2]>>) : p \in {q \in field \X field : q[1].key # q[2].key}}

\* Scalar input values handed to parse and safeParse.
Scalars ==
    {Undefined, Null,
     Str("a"), Str("ab"), Str("b.co"), Str("a@b.co"),
     Num(-1), Num(0), Num(2),
     Bool(TRUE), Bool(FALSE)}

\* Structured input values handed to parse and safeParse.
Structures ==
    {Obj(NoProps),
     Obj(("a" :> Num(2)) @@ ("b" :> Str("x"))),
     Obj("a" :> Obj("b" :> Str("x"))),
     Arr(<<>>),
     Arr(<<Num(1), Str("x"), Num(3)>>),
     Arr(<<Num(1), Num(2), Num(3)>>)}

\* The inputs of a run: structured values are handed to the runs that built
\* a composite schema.
Inputs(h) ==
    IF \E n \in Allocated(h) : h[n].class \in {"RyuObj", "RyuArr"}
    THEN Scalars \cup Structures
    ELSE Scalars

-----------------------------------------------------------------------------
(* The state machine: a client program that builds schemas through the     *)
(* facade, configures them by chain calls and validates inputs.            *)
(*   heap     the schema objects allocated so far                          *)
(*   last     the last call: its name, receiver, arguments and outcome     *)
(*   chained  the number of chain calls made                               *)
(*   run      the parse call followed call by call (SpecRun); Idle         *)
(*            elsewhere                                                    *)

Call(op, this, args, out) == [op |-> op, this |-> this, args |-> args, out |-> out]

\* No parse call is being followed.
Idle == [t |-> "idle"]

Views(h) == {n \in Allocated(h) : h[n].proto # 0}

\* A facade call: allocates one schema object.
Build(op, args, c) ==
    /\ Len(heap) < MaxNodes
    /\ heap' = c.heap
    /\ last' = Call(op, 0, args, c.out)
    /\ UNCHANGED <<chained, run>>

\* A chain call on the schema object this.
Chain(op, this, args, c) ==
    /\ chained < MaxChain
    /\ heap' = c.heap
    /\ last' = Call(op, this, args, c.out)
    /\ chained' = chained + 1
    /\ UNCHANGED run

OfClass(class) == {n \in Allocated(heap) : heap[n].class = class}

NewString == Build("string", <<>>, RyuStringNew(heap))

NewNumber == Build("number", <<>>, RyuNumNew(heap))

NewBoolean == Build("boolean", <<>>, RyuBoolNew(heap))

NewEmail == \E m \in FacadeMsgs : Build("email", <<m>>, RyuEmailNew(heap, m))

NewUrl == \E m \in FacadeMsgs : Build("url", <<m>>, RyuUrlNew(heap, m))

NewObject == \E shape \in Shapes(heap) : Build("object", <<shape>>, RyuObjNew(heap, shape))

NewArray ==
    \E e \in {Undefined} \cup {Ref(n) : n \in Allocated(heap)}, m \in FacadeMsgs :
        Build("array", <<e, m>>, RyuArrNew(heap, e, m))

CallOptional ==
    \E n \in Allocated(heap) :
        /\ Len(heap) < MaxNodes
        /\ Cardinality(Views(heap)) < MaxViews
        /\ heap' = Optional(heap, n).heap
        /\ last' = Call("optional", n, <<>>, Optional(heap, n).out)
        /\ UNCHANGED <<chained, run>>

CallStringMin ==
    \E n \in OfClass("RyuString"), len \in Lens, m \in ErrorMsgs :
        Chain("min", n, <<len, m>>, StringMin(heap, n, len, m))

CallStringMax ==
    \E n \in OfClass("RyuString"), len \in Lens, m \in ErrorMsgs :
        Chain("max", n, <<len, m>>, StringMax(heap, n, len, m))

CallStringLength ==
    \E n \in OfClass("RyuString"), len \in Lens, m \in ErrorMsgs :
        Chain("length", n, <<len, m>>, StringLength(heap, n, len, m))

CallStringIncludes ==
    \E n \in OfClass("RyuString"), val \in Subs, m \in ErrorMsgs :
        Chain("includes", n, <<val, m>>, StringIncludes(heap, n, val, m))

CallStringStartsWith ==
    \E n \in OfClass("RyuString"), val \in Subs, m \in ErrorMsgs :
        Chain("startsWith", n, <<val, m>>, StringStartsWith(heap, n, val, m))

CallStringEndsWith ==
    \E n \in OfClass("RyuString"), val \in Subs, m \in ErrorMsgs :
        Chain("endsWith", n, <<val, m>>, StringEndsWith(heap, n, val, m))

CallStringEmail ==
    \E n \in OfClass("RyuString"), m \in ErrorMsgs :
        Chain("email", n, <<m>>, StringEmail(heap, n, m))

CallStringUrl ==
    \E n \in OfClass("RyuString"), m \in ErrorMsgs :
        Chain("url", n, <<m>>, StringUrl(heap, n, m))

CallNumMin ==
    \E n \in OfClass("RyuNum"), len \in Limits, m \in ErrorMsgs :
        Chain("min", n, <<len, m>>, NumMin(heap, n, len, m))

CallNumMax ==
    \E n \in OfClass("RyuNum"), len \in Limits, m \in ErrorMsgs :
        Chain("max", n, <<len, m>>, NumMax(heap, n, len, m))

CallNumPositive ==
    \E n \in OfClass("RyuNum"), m \in ErrorMsgs :
        Chain("positive", n, <<m>>, NumPositive(heap, n, m))

CallNumNegative ==
    \E n \in OfClass("RyuNum"), m \in ErrorMsgs :
        Chain("negative", n, <<m>>, NumNegative(heap, n, m))

CallBoolTrue ==
    \E n \in OfClass("RyuBool"), m \in ErrorMsgs :
        Chain("true", n, <<m>>, BoolTrue(heap, n, m))

CallBoolFalse ==
    \E n \in OfClass("RyuBool"), m \in ErrorMsgs :
        Chain("false", n, <<m>>, BoolFalse(heap, n, m))

\* A validation call.  It reads the heap and changes nothing in it, so a
\* validation made directly after another one reaches exactly the states the
\* second call reaches alone: runs are explored with validations separated by
\* build or chain calls.
Validate(op, n, data, c) ==
    /\ last.op \notin {"parse", "safeParse"}
    /\ heap' = c.heap
    /\ last' = Call(op, n, <<data>>, c.out)
    /\ UNCHANGED <<chained, run>>

\* A parse that keeps its input on the schema object (this._data = data).
ParseCallKeepsInput(h, this, data) ==
    Called(SetOwn(h, this, "_data", data), Parse(h, this, data, Undefined))

\* schema.parse(data), no path argument: no method on its way assigns to a
\* schema object.
ParseCall(h, this, data) == Called(h, Parse(h, this, data, Undefined))

\* schema.safeParse(data): likewise.
SafeParseCall(h, this, data) == Called(h, SafeParse(h, this, data))

CallParse ==
    \E n \in Allocated(heap), data \in Inputs(heap) :
        Validate("parse", n, data, ParseCall(heap, n, data))

CallSafeParse ==
    \E n \in Allocated(heap), data \in Inputs(heap) :
        Validate("safeParse", n, data, SafeParseCall(heap, n, data))

\* The chain calls of the three primitive schemas.
ChainCall ==
    \/ CallStringMin \/ CallStringMax \/ CallStringLength
    \/ CallStringIncludes \/ CallStringStartsWith \/ CallStringEndsWith
    \/ CallStringEmail \/ CallStringUrl
    \/ CallNumMin \/ CallNumMax \/ CallNumPositive \/ CallNumNegative
    \/ CallBoolTrue \/ CallBoolFalse

\* Runs on one primitive schema: the state after the facade call that made
\* it; the run derives views of it, configures it and them, and validates.
Init ==
    \E c \in {RyuStringNew(<<>>), RyuNumNew(<<>>), RyuBoolNew(<<>>)} :
        /\ heap = c.heap
        /\ last = Call("new", 0, <<>>, c.out)
        /\ chained = 0
        /\ run = Idle

Next == CallOptional \/ ChainCall \/ CallParse \/ CallSafeParse

Spec == Init /\ [][Next]_vars

\* Runs that build schema trees through the facade, derive views and
\* validate; no chain call is made (ryu.email and ryu.url build the
\* configured leaves).
InitTree ==
    /\ heap = <<>>
    /\ last = Call("none", 0, <<>>, Return(Undefined))
    /\ chained = 0
    /\ run = Idle

NextTree ==
    \/ NewString \/ NewNumber \/ NewBoolean \/ NewEmail \/ NewUrl
    \/ NewObject \/ NewArray
    \/ CallOptional \/ CallParse \/ CallSafeParse

SpecTree == InitTree /\ [][NextTree]_vars

-----------------------------------------------------------------------------
(* One parse call followed call by call.  The input is an object graph:    *)
(* a store of objects and arrays whose properties and elements are scalars *)
(* or pointers into the store, so that an input may contain itself.  The   *)
(* calls in progress form a stack of frames, one per schema.parse(data,    *)
(* path) call that has not returned.                                       *)

\* A reference to the input object mem[a].
Ptr(a) == [t |-> "ptr", addr |-> a]

\* The value a frame examines: the object a pointer refers to, or the scalar.
Deref(mem, v) == IF v.t = "ptr" THEN mem[v.addr] ELSE v

\* The outcome of a call that has not returned.
Pending == [t |-> "pending"]

\* The call schema.parse(data, path) on entry: the loop of a composite is at
\* its first field or element, with an empty result.
Frame(h, node, data, path) ==
    [node |-> node, data |-> data, path |-> path, pos |-> 1,
     result |-> IF h[node].class = "RyuArr" THEN Arr(<<>>) ELSE Obj(NoProps),
     thrown |-> Undefined]

Top(frames) == frames[Len(frames)]

Pop(frames) == SubSeq(frames, 1, Len(frames) - 1)

\* The call returns or throws at once, without calling parse on a child: a
\* primitive schema, an Object schema handed a non-object, an Array schema
\* handed a non-array, or an optional view of one handed undefined or null.
Immediate(h, n, v) ==
    CASE h[n].class = "RyuObj" -> TypeOf(v) # "object" \/ ~Truthy(v)
      [] h[n].class = "RyuArr" ->
            (Truthy(Get(h, n, "_optional")) /\ Nullish(v)) \/ v.t # "array"
      [] OTHER -> TRUE

\* The number of iterations of the composite's loop: the keys of the shape,
\* or the elements of the input array.
Iterations(h, n, v) ==
    IF h[n].class = "RyuObj" THEN Len(Get(h, n, "shape").fields) ELSE Len(v.elems)

\* The key or index the loop of frame f is at, as a path segment.
Segment(h, f) ==
    IF h[f.node].class = "RyuObj"
    THEN LET fields == Get(h, f.node, "shape").fields
         IN  Str(fields[ForIn(fields)[f.pos]].key)
    ELSE Num(f.pos - 1)

\* The child schema the loop of frame f calls parse on.
ChildSchema(h, f) ==
    IF h[f.node].class = "RyuObj"
    THEN LET fields == Get(h, f.node, "shape").fields
         IN  fields[ForIn(fields)[f.pos]].schema
    ELSE Get(h, f.node, "_ryuSchema")

\* The value the loop of frame f hands to the child: data[key], or the
\* element the map is at.
ChildData(h, f, v) ==
    IF h[f.node].class = "RyuObj" THEN Index(v, Segment(h, f).s) ELSE v.elems[f.pos]

\* result[key] = value, or the value map collects; the loop moves on.
Keep(h, f, value) ==
    [f EXCEPT !.result = IF h[f.node].class = "RyuObj"
                         THEN Obj((Segment(h, f).s :> value) @@ f.result.props)
                         ELSE Arr(Append(f.result.elems, value)),
              !.pos = f.pos + 1]

\* A loop that parses the same field or element again: the child's value is
\* dropped and the loop stays where it is.
DeliverAgain(h, r, frames, out) ==
    IF frames = <<>> THEN [r EXCEPT !.frames = <<>>, !.out = out]
    ELSE LET f == Top(frames)
             g == IF out.ok THEN f
                  ELSE [f EXCEPT !.thrown =
                            AttachPath(out.error,
                                       Extend(Default(f.path, EmptyPath), Segment(h, f)))]
         IN  [r EXCEPT !.frames = Append(Pop(frames), g)]

\* A call ends with out; frames are the calls still in progress.  The caller
\* keeps a returned value and moves on, or catches a thrown error, sets its
\* path where it has none and throws it again; the outermost call's outcome
\* is the outcome of the run.
Deliver(h, r, frames, out) ==
    IF frames = <<>> THEN [r EXCEPT !.frames = <<>>, !.out = out]
    ELSE LET f == Top(frames)
             g == IF out.ok THEN Keep(h, f, out.value)
                  ELSE [f EXCEPT !.thrown =
                            AttachPath(out.error,
                                       Extend(Default(f.path, EmptyPath), Segment(h, f)))]
         IN  [r EXCEPT !.frames = Append(Pop(frames), g)]

\* The innermost call returns or throws without calling a child.
StepReturn ==
    /\ run.frames # <<>>
    /\ LET f == Top(run.frames)
           v == Deref(run.mem, f.data)
       IN  /\ f.thrown = Undefined
           /\ Immediate(heap, f.node, v)
           /\ run' = Deliver(heap, run, Pop(run.frames), Parse(heap, f.node, v, f.path))
    /\ UNCHANGED <<heap, last, chained>>

\* The loop of the innermost call reaches a field or an element and calls
\* parse on the child schema (schema?.parse yields undefined where the child
\* schema is missing).
StepDescend ==
    /\ run.frames # <<>>
    /\ LET f == Top(run.frames)
           v == Deref(run.mem, f.data)
           schema == ChildSchema(heap, f)
           path == Extend(Default(f.path, EmptyPath), Segment(heap, f))
       IN  /\ f.thrown = Undefined
           /\ ~Immediate(heap, f.node, v)
           /\ f.pos <= Iterations(heap, f.node, v)
           /\ run' = IF Nullish(schema)
                     THEN [run EXCEPT !.frames = Append(Pop(run.frames), Keep(heap, f, Undefined))]
                     ELSE [run EXCEPT !.frames =
                              Append(run.frames,
                                     Frame(heap, schema.ref, ChildData(heap, f, v), path))]
    /\ UNCHANGED <<heap, last, chained>>

\* The loop of the innermost call is over: the call returns its result.
StepFinish ==
    /\ run.frames # <<>>
    /\ LET f == Top(run.frames)
           v == Deref(run.mem, f.data)
       IN  /\ f.thrown = Undefined
           /\ ~Immediate(heap, f.node, v)
           /\ f.pos > Iterations(heap, f.node, v)
           /\ run' = Deliver(heap, run, Pop(run.frames), Return(f.result))
    /\ UNCHANGED <<heap, last, chained>>

\* The innermost call throws the error it caught from a child again.
StepUnwind ==
    /\ run.frames # <<>>
    /\ LET f == Top(run.frames)
       IN  /\ f.thrown # Undefined
           /\ run' = Deliver(heap, run, Pop(run.frames), Throw(f.thrown))
    /\ UNCHANGED <<heap, last, chained>>

\* Finite schema trees over one String leaf (node 1), three nodes each.
RunSchemas ==
    LET leaf == RyuStringNew(<<>>).heap
        f(k, n) == [key |-> k, schema |-> Ref(n)]
    IN  {RyuObjNew(RyuObjNew(leaf, Shape(<<f("b", 1)>>)).heap,
                   Shape(<<f("a", 2), f("b", 1)>>)).heap,
         RyuObjNew(RyuObjNew(leaf, Shape(<<f("a", 1)>>)).heap,
                   Shape(<<f("a", 2)>>)).heap,
         RyuArrNew(RyuArrNew(leaf, Ref(1), Undefined).heap, Ref(2), Undefined).heap,
         RyuObjNew(RyuArrNew(leaf, Ref(1), Undefined).heap, Shape(<<f("a", 2)>>)).heap,
         RyuArrNew(RyuObjNew(leaf, Shape(<<f("b", 1)>>)).heap, Ref(2), Undefined).heap,
         Optional(RyuArrNew(leaf, Undefined, Undefined).heap, 2).heap}

\* Input object graphs with the value handed to parse: an object that is its
\* own field, an array that is its own element, an object and an array that
\* hold each other, and graphs without a cycle.
RunInputs ==
    LET in(mem, root) == [mem |-> mem, root |-> root]
    IN  {in(<<Obj(("a" :> Ptr(1)) @@ ("b" :> Str("x")))>>, Ptr(1)),
         in(<<Arr(<<Ptr(1), Str("x")>>)>>, Ptr(1)),
         in(<<Obj(("a" :> Ptr(2)) @@ ("b" :> Str("x"))), Arr(<<Ptr(1)>>)>>, Ptr(1)),
         in(<<Obj(("a" :> Ptr(2)) @@ ("b" :> Str("x"))), Arr(<<Ptr(1)>>)>>, Ptr(2)),
         in(<<Obj(("a" :> Ptr(2)) @@ ("b" :> Str("x"))), Obj("b" :> Str("y"))>>, Ptr(1)),
         in(<<Arr(<<Ptr(2), Ptr(2)>>), Arr(<<Str("x")>>)>>, Ptr(1)),
         in(<<>>, Str("x")),
         in(<<>>, Undefined)}

\* schema.parse(data) is called on a node of a finite schema tree with an
\* input graph.
InitRun ==
    \E h \in RunSchemas, i \in RunInputs :
        \E n \in Allocated(h) :
            /\ heap = h
            /\ last = Call("parse", n, <<i.root>>, Return(Undefined))
            /\ chained = 0
            /\ run = [mem |-> i.mem,
                      frames |-> <<Frame(h, n, i.root, Undefined)>>,
                      out |-> Pending]

NextRun == StepReturn \/ StepDescend \/ StepFinish \/ StepUnwind

\* The calls run to completion on one thread: a step that can be taken is
\* taken.
SpecRun == InitRun /\ [][NextRun]_vars /\ WF_vars(NextRun)

-----------------------------------------------------------------------------
(* Properties of the last call.                                            *)

\* The input of the last validation call.
LastData == last.args[1]

\* The last call was schema.parse(data) / schema.safeParse(data).
Parsed == last.op = "parse"

SafeParsed == last.op = "safeParse"

\* The envelope the last safeParse call returned.
Envelope == last.out.value

Succeeded == SafeParsed /\ last.out.ok /\ GetProp(Envelope, "success") = Bool(TRUE)

\* What schema.parse(data), called with no path, does on the receiver and
\* input of the last call.
PlainParse == Parse(heap, last.this, LastData, Undefined)

\* The receiver of the last call is a view made by optional().
OnView == heap[last.this].proto # 0

\* C1: safeParse never raises for any input: it returns an envelope whose
\* success is true exactly when parse of the same input, called with no path,
\* returns without throwing.
SafeParseNeverRaises ==
    SafeParsed =>
        /\ last.out.ok
        /\ GetProp(Envelope, "success") \in {Bool(TRUE), Bool(FALSE)}
        /\ (GetProp(Envelope, "success") = Bool(TRUE)) <=> PlainParse.ok

\* C1 happens: safeParse returned a failure envelope for an input parse
\* rejects, and a success envelope for an input parse accepts.
SafeParseFailureSeen ==
    /\ SafeParsed /\ last.out.ok
    /\ GetProp(Envelope, "success") = Bool(FALSE)
    /\ ~PlainParse.ok
    /\ heap[last.this].class = "RyuObj"

\* C2 as stated: on success the envelope's data is parse's return value,
\* optional views included.
SafeParseDataIsParseValue ==
    Succeeded => GetProp(Envelope, "data") = PlainParse.value

\* C2 amended: on success the envelope's data is parse's return value, except
\* that a returned undefined (the short-circuit of an optional view) is
\* reported as null.
SafeParseDataIsParseValueOrNull ==
    Succeeded => GetProp(Envelope, "data") = Coalesce(PlainParse.value, Null)

\* C2 happens: safeParse succeeded on a view whose parse returns undefined,
\* and the envelope's data is null.
SafeParseNullDataSeen ==
    /\ Succeeded /\ OnView
    /\ PlainParse.value = Undefined
    /\ GetProp(Envelope, "data") = Null

\* C3 as stated: for every schema kind, parse on a view made by optional()
\* returns undefined for an undefined or null input without running the
\* underlying validation; in particular an object whose fields are all
\* optional strings accepts the empty object.
OptionalShortCircuits ==
    /\ (Parsed /\ OnView /\ Nullish(LastData)) => last.out = Return(Undefined)
    /\ (/\ Parsed
        /\ heap[last.this].class = "RyuObj"
        /\ LastData = Obj(NoProps)
        /\ \A i \in DOMAIN Get(heap, last.this, "shape").fields :
               LET f == Get(heap, last.this, "shape").fields[i]
               IN  heap[f.schema.ref].class = "RyuString" /\ heap[f.schema.ref].proto # 0)
       => last.out.ok

\* The error the last validation call reported: the value parse threw, or
\* the error of safeParse's envelope.
LastError == IF Parsed THEN last.out.error ELSE GetProp(Envelope, "error")

Failed ==
    \/ Parsed /\ ~last.out.ok
    \/ SafeParsed /\ last.out.ok /\ GetProp(Envelope, "success") = Bool(FALSE)

\* The constraint family recorded on the node n itself.
OwnConstraintType(h, n) ==
    IF "constraintType" \in DOMAIN h[n].own THEN h[n].own["constraintType"] ELSE Undefined

\* C4 as stated: no String node or view ever validates with both a fixed
\* length() constraint and a min()/max() constraint active.
NoLengthWithRange ==
    ((Parsed \/ SafeParsed) /\ heap[last.this].class = "RyuString") =>
        ~(/\ Active(heap, last.this, "_length")
          /\ Active(heap, last.this, "_min") \/ Active(heap, last.this, "_max"))

\* The methods already called on node n that the chain method op is mutually
\* exclusive with.
ConflictsOf(h, n, op) ==
    LET class == h[n].class
        own == OwnConstraintType(h, n)
    IN  CASE class = "RyuString" /\ op \in {"min", "max"} /\ own = Str("length") -> {"length()"}
          [] class = "RyuString" /\ op = "length" /\ own = Str("range") ->
                {m \in {"min()", "max()"} :
                    Active(h, n, IF m = "min()" THEN "_min" ELSE "_max")}
          [] class = "RyuNum" /\ op = "positive" /\ own = Str("negative") -> {"negative()"}
          [] class = "RyuNum" /\ op = "negative" /\ own = Str("positive") -> {"positive()"}
          [] class = "RyuBool" /\ op = "true" /\ own = Str("false") -> {"false()"}
          [] class = "RyuBool" /\ op = "false" /\ own = Str("true") -> {"true()"}
          [] OTHER -> {}

\* C5: the second method of a mutually exclusive pair, called on the node
\* the first was called on, fails at the chain call with a code-2 error whose
\* message names both methods, and changes nothing, whether or not the node
\* has validated anything before.
ConflictFailsAtChainCall ==
    [][\A n \in Allocated(heap) :
          (/\ chained' = chained + 1
           /\ last'.this = n
           /\ ConflictsOf(heap, n, last'.op) # {})
          => /\ ~last'.out.ok
             /\ GetProp(last'.out.error, "code") = Num(2)
             /\ JsIncludes(GetProp(last'.out.error, "message").s, last'.op \o "()")
             /\ \A m \in ConflictsOf(heap, n, last'.op) :
                    JsIncludes(GetProp(last'.out.error, "message").s, m)
             /\ heap' = heap]_vars

\* C5 happens: length() was rejected on a String node that has min() or
\* max() set.
ConflictSeen ==
    /\ last.op = "length"
    /\ ~last.out.ok
    /\ GetProp(last.out.error, "code") = Num(2)
    /\ OwnConstraintType(heap, last.this) = Str("range")

\* C6 as stated: 0 is accepted by neither sign constraint: parse(0) fails on a
\* Number schema with positive() and on one with negative().
ZeroHasNoSign ==
    (/\ Parsed
     /\ heap[last.this].class = "RyuNum"
     /\ LastData = Num(0)
     /\ Active(heap, last.this, "_positive") \/ Active(heap, last.this, "_negative"))
    => ~last.out.ok

\* The place where node n, parsing data at path, fails: the node that rejects
\* its input, that input, the path of field names and indices from the root,
\* and the classes of the enclosing nodes.  An object descends into the
\* first failing field its loop visits, an array into its first failing
\* element.  Defined where parse on n fails for data.
RECURSIVE FailSite(_, _, _, _, _)
FailSite(h, n, data, path, above) ==
    LET class == h[n].class
        rejects(schema, v) == ~Parse(h, schema.ref, v, Undefined).ok
        fields == Get(h, n, "shape").fields
        order == ForIn(fields)
        badFields == {p \in 1..Len(order) :
                        rejects(fields[order[p]].schema, Index(data, fields[order[p]].key))}
        f == fields[order[CHOOSE p \in badFields : \A q \in badFields : p <= q]]
        elem == Get(h, n, "_ryuSchema")
        badElems == {i \in 1..Len(data.elems) : rejects(elem, data.elems[i])}
        e == CHOOSE i \in badElems : \A j \in badElems : i <= j
    IN  CASE class = "RyuObj" /\ data.t = "object" ->
                FailSite(h, f.schema.ref, Index(data, f.key),
                         Extend(path, Str(f.key)), Append(above, class))
          [] class = "RyuArr" /\ data.t = "array" ->
                FailSite(h, elem.ref, data.elems[e],
                         Extend(path, Num(e - 1)), Append(above, class))
          [] OTHER -> [node |-> n, data |-> data, path |-> path, above |-> above]

\* The place where the last validation call failed.
LastSite == FailSite(heap, last.this, LastData, EmptyPath, <<>>)

\* The failing node is a leaf nested inside Object schemas only.
LeafInObjects ==
    /\ heap[LastSite.node].class # "RyuObj"
    /\ LastSite.above # <<>>
    /\ \A i \in DOMAIN LastSite.above : LastSite.above[i] = "RyuObj"

\* C7: when a leaf nested inside Object schemas of any depth fails, the
\* error's path is the sequence of field names from the root to the failing
\* leaf: no enclosing object overwrites the path the leaf set.
LeafPathIsFieldNames ==
    (Failed /\ LeafInObjects) => GetProp(LastError, "path") = LastSite.path

\* C7 happens: a leaf two objects deep failed and the path names both fields.
NestedLeafFailureSeen ==
    /\ Parsed /\ Failed /\ LeafInObjects
    /\ Len(LastSite.above) = 2
    /\ GetProp(LastError, "path") = Arr(<<Str("a"), Str("b")>>)

\* C8 as stated: when an array is parsed and some element fails the element
\* schema, the error's path is the array's outer path followed by the index of
\* the first failing element.
ArrayPathIsIndex ==
    (/\ Failed
     /\ heap[last.this].class = "RyuArr"
     /\ LastData.t = "array")
    => LET elem == Get(heap, last.this, "_ryuSchema")
           bad == {i \in 1..Len(LastData.elems) :
                      ~Parse(heap, elem.ref, LastData.elems[i], Undefined).ok}
           first == CHOOSE i \in bad : \A j \in bad : i <= j
       IN  GetProp(LastError, "path") = Arr(<<Num(first - 1)>>)

\* C9 as stated: an Object schema, at top level or nested under a field or an
\* index, that receives an input that is not a record fails with code 1 and
\* "Expected object", and the error's path is the node's current path: the
\* path the enclosing composite passed or, at top level, the default.
ObjectRejectsNonRecord ==
    /\ (/\ Parsed \/ SafeParsed
        /\ heap[last.this].class = "RyuObj"
        /\ LastData.t # "object")
       => Failed
    /\ (/\ Failed
        /\ heap[LastSite.node].class = "RyuObj")
       => /\ GetProp(LastError, "code") = Num(1)
          /\ GetProp(LastError, "message") = Str("Expected object")
          /\ GetProp(LastError, "path")
                \in IF LastSite.above = <<>> THEN {EmptyPath, RootPath} ELSE {LastSite.path}

\* C10 as stated: on a bare String, Number or Boolean schema a failing
\* parse(v) with no path and a failing safeParse(v) both report the path
\* ["value"].
ScalarErrorsAtRootPath ==
    (/\ Failed
     /\ heap[last.this].class \in {"RyuString", "RyuNum", "RyuBool"}
     /\ ~OnView)
    => GetProp(LastError, "path") = RootPath

\* The node n is what string().min(len) builds: a String instance whose only
\* configured constraint is min().
OnlyMin(h, n) ==
    /\ h[n].class = "RyuString"
    /\ h[n].proto = 0
    /\ DOMAIN h[n].own = {"_optional", "_isRootPrimitive", "constraintType", "_min"}

\* C11: string().min(n).parse(s) fails iff length(s) < n, and otherwise
\* returns s unchanged.
MinFailsIffShorter ==
    (Parsed /\ OnlyMin(heap, last.this) /\ LastData.t = "string") =>
        /\ ~last.out.ok <=> Len(LastData.s) < ValOf(heap, last.this, "_min").n
        /\ last.out.ok => last.out.value = LastData

\* C11 happens: a string shorter than n was rejected by string().min(n).
MinTooShortSeen ==
    /\ Parsed /\ OnlyMin(heap, last.this) /\ LastData.t = "string"
    /\ Len(LastData.s) < ValOf(heap, last.this, "_min").n
    /\ ~last.out.ok

\* The declared fields of the Object schema the last call was made on.
LastFields == Get(heap, last.this, "shape").fields

\* The positions of the declared fields whose child schema rejects the value
\* the input of the last call holds for them.
FailingFields ==
    {i \in DOMAIN LastFields :
        ~Parse(heap, LastFields[i].schema.ref, Index(LastData, LastFields[i].key), Undefined).ok}

\* The positions of the declared fields in the order RyuObj.parse visits them.
LastOrder == ForIn(LastFields)

\* The first field RyuObj.parse visits whose child schema rejects its value.
FirstFailingField ==
    LastOrder[CHOOSE p \in DOMAIN LastOrder :
                /\ LastOrder[p] \in FailingFields
                /\ \A q \in 1..(p - 1) : LastOrder[q] \notin FailingFields]

\* The last element of a path.
LastSegment(path) == path.elems[Len(path.elems)]

\* C12 as stated: a field declared with a non-optional child schema and absent
\* from the input is parsed as undefined and makes the Object parse fail with
\* code 1 and a path ending in that field's name.
MissingFieldFails ==
    (Parsed /\ heap[last.this].class = "RyuObj" /\ LastData.t = "object") =>
        \A i \in DOMAIN LastFields :
            (/\ LastFields[i].key \notin DOMAIN LastData.props
             /\ ~Truthy(Get(heap, LastFields[i].schema.ref, "_optional")))
            => /\ ~last.out.ok
               /\ GetProp(last.out.error, "code") = Num(1)
               /\ i = FirstFailingField =>
                     /\ GetProp(last.out.error, "path").t = "array"
                     /\ GetProp(last.out.error, "path").elems # <<>>
                     /\ LastSegment(GetProp(last.out.error, "path")) = Str(LastFields[i].key)

\* C13 as stated: when a field's child schema fails, the Object parse fails
\* with the child's error code and message unchanged and with the field's
\* name in the path.
ChildErrorKept ==
    (Parsed /\ heap[last.this].class = "RyuObj" /\ LastData.t = "object" /\ ~last.out.ok) =>
        LET f == LastFields[FirstFailingField]
            child == Parse(heap, f.schema.ref, Index(LastData, f.key), Undefined).error
            path == GetProp(last.out.error, "path")
        IN  /\ GetProp(last.out.error, "code") = GetProp(child, "code")
            /\ GetProp(last.out.error, "message") = GetProp(child, "message")
            /\ path.t = "array"
            /\ \E k \in DOMAIN path.elems : path.elems[k] = Str(f.key)

\* C14: idempotence: when parse succeeds on an input, parsing the returned
\* value again with the same schema succeeds and returns an equal value.
ParseIdempotent ==
    (Parsed /\ last.out.ok) =>
        LET again == Parse(heap, last.this, last.out.value, Undefined)
        IN  again.ok /\ again.value = last.out.value

\* C14 happens: a composite schema returned a value that differs from its
\* input, and parsing that value again returns it.
ReparseSeen ==
    /\ Parsed /\ last.out.ok
    /\ heap[last.this].class \in {"RyuObj", "RyuArr"}
    /\ last.out.value # LastData
    /\ last.out.value \notin {Undefined, Obj(NoProps)}
    /\ Parse(heap, last.this, last.out.value, Undefined) = last.out

\* The last call was a chain (configuration) call.
Chained == last.op \notin {"new", "none", "string", "number", "boolean", "email", "url",
                           "object", "array", "optional", "parse", "safeParse"}

\* C15: every failure raised by parse or reported by safeParse has code 1
\* and carries a path; a code-2 error is raised only by a chain call.
ValidationFailuresHaveCode1 ==
    /\ Failed =>
          /\ GetProp(LastError, "code") = Num(1)
          /\ GetProp(LastError, "path").t = "array"
    /\ (~last.out.ok /\ GetProp(last.out.error, "code") = Num(2)) => Chained

\* C15 happens: parse failed with code 1 on a node whose configuration
\* records a constraint family, the state the code-2 checks read.
ConfiguredFailureSeen ==
    /\ Parsed /\ Failed
    /\ OwnConstraintType(heap, last.this) # Undefined
    /\ GetProp(LastError, "code") = Num(1)

\* C16: the result of safeParse is a tagged value: when success is true the
\* error is null; when success is false the data is null and the error is
\* not; no result has both data and error populated.
EnvelopeExclusive ==
    (SafeParsed /\ last.out.ok) =>
        LET success == GetProp(Envelope, "success")
            data == GetProp(Envelope, "data")
            error == GetProp(Envelope, "error")
        IN  /\ DOMAIN Envelope.props = {"data", "success", "error"}
            /\ success = Bool(TRUE) => error = Null
            /\ success = Bool(FALSE) => (data = Null /\ ~Nullish(error))
            /\ ~(~Nullish(data) /\ ~Nullish(error))

\* C16 happens: safeParse rejected a non-null input on an Array schema and
\* returned a failure with null data and an error.
FailureEnvelopeSeen ==
    /\ SafeParsed /\ last.out.ok
    /\ heap[last.this].class = "RyuArr"
    /\ ~Nullish(LastData)
    /\ GetProp(Envelope, "success") = Bool(FALSE)
    /\ GetProp(Envelope, "data") = Null
    /\ ~Nullish(GetProp(Envelope, "error"))

\* The field names the shape of the last call's Object schema declares.
DeclaredKeys == {LastFields[i].key : i \in DOMAIN LastFields}

\* The input of the last call without its undeclared keys.
DeclaredPart ==
    Obj([k \in DOMAIN LastData.props \cap DeclaredKeys |-> LastData.props[k]])

\* C17: a successful Object parse returns a record whose keys are exactly
\* the declared fields; undeclared input keys are ignored: they never cause a
\* failure and never appear in the result.
UndeclaredKeysIgnored ==
    (Parsed /\ heap[last.this].class = "RyuObj") =>
        /\ last.out.ok =>
              /\ last.out.value.t = "object"
              /\ DOMAIN last.out.value.props = DeclaredKeys
        /\ LastData.t = "object" =>
              Parse(heap, last.this, DeclaredPart, Undefined) = last.out

\* C17 happens: an input with an undeclared key was accepted and the key is
\* not in the result.
UndeclaredKeyDropped ==
    /\ Parsed /\ last.out.ok
    /\ heap[last.this].class = "RyuObj"
    /\ LastData.t = "object"
    /\ DeclaredKeys # {}
    /\ DOMAIN LastData.props \ DeclaredKeys # {}
    /\ DOMAIN last.out.value.props = DeclaredKeys

\* C18 as stated: a successful Array parse returns a sequence of the input's
\* length whose i-th element is the validated i-th input element, for every
\* array schema, with or without an element schema.
ArrayParseKeepsElements ==
    (Parsed /\ last.out.ok /\ heap[last.this].class = "RyuArr" /\ LastData.t = "array") =>
        LET elem == Get(heap, last.this, "_ryuSchema")
            validated(v) == IF Nullish(elem) THEN v
                            ELSE Parse(heap, elem.ref, v, Undefined).value
        IN  /\ last.out.value.t = "array"
            /\ Len(last.out.value.elems) = Len(LastData.elems)
            /\ \A i \in DOMAIN LastData.elems :
                   last.out.value.elems[i] = validated(LastData.elems[i])

\* The String chain methods that take a parameter and a message.
StringConstraints == {"min", "max", "length", "includes", "startsWith", "endsWith"}

\* The string s breaks the constraint op(val).
Breaks(op, val, s) ==
    CASE op = "min" -> Len(s) < val.n
      [] op = "max" -> Len(s) > val.n
      [] op = "length" -> Len(s) # val.n
      [] op = "includes" -> ~JsIncludes(s, val.s)
      [] op = "startsWith" -> ~JsStartsWith(s, val.s)
      [] op = "endsWith" -> ~JsEndsWith(s, val.s)

\* The default message of the constraint op(val), as the tests of the String
\* schema expect it.
DefaultMessage(op, val) ==
    CASE op = "min" -> "String must have " \o ToString(val.n) \o " characters"
      [] op = "max" -> "String must be less than " \o ToString(val.n) \o " characters"
      [] op = "length" -> "String must contain " \o ToString(val.n) \o " characters"
      [] op = "includes" -> "String must include " \o val.s
      [] op = "startsWith" -> "String must start with " \o val.s
      [] op = "endsWith" -> "String must end with " \o val.s

\* The string s breaks no constraint of node n other than op.
BreaksNoOther(h, n, op, s) ==
    /\ ~Active(h, n, "_email") /\ ~Active(h, n, "_url")
    /\ \A o \in StringConstraints \ {op} :
           Active(h, n, "_" \o o) => ~Breaks(o, ValOf(h, n, "_" \o o), s)

\* The last call configured a String constraint that takes a message.
ConstraintSet ==
    /\ last.op \in StringConstraints
    /\ heap[last.this].class = "RyuString"
    /\ last.out.ok

\* C19 as stated: a failure of a String constraint carries exactly the
\* message passed to the chain call when one was passed, and otherwise the
\* default message derived from the constraint's parameter.
ConstraintMessage ==
    ConstraintSet =>
        LET val == last.args[1]
            msg == last.args[2]
            expected == IF msg # Undefined THEN msg ELSE Str(DefaultMessage(last.op, val))
        IN  \A v \in {d \in Scalars : d.t = "string"} :
                (Breaks(last.op, val, v.s) /\ BreaksNoOther(heap, last.this, last.op, v.s)) =>
                    LET r == Parse(heap, last.this, v, Undefined)
                    IN  ~r.ok /\ GetProp(r.error, "message") = expected

\* C20 as stated: number().negative() configured without a custom message
\* fails on a non-negative number with the message "Should be negative".
NegativeDefaultMessage ==
    (/\ last.op = "negative"
     /\ last.out.ok
     /\ last.args[1] = Undefined)
    => \A v \in {d \in Scalars : d.t = "number"} :
           (/\ v.n >= 0
            /\ Active(heap, last.this, "_min") => v.n >= ValOf(heap, last.this, "_min").n
            /\ Active(heap, last.this, "_max") => v.n <= ValOf(heap, last.this, "_max").n)
           => LET r == Parse(heap, last.this, v, Undefined)
              IN  ~r.ok /\ GetProp(r.error, "message") = Str("Should be negative")


\* The schema objects on the prototype chain of n, n itself excluded: the
\* base a view was derived from, and that base's own bases.
RECURSIVE Bases(_, _)
Bases(h, n) ==
    IF n = 0 \/ h[n].proto = 0 THEN {}
    ELSE {h[n].proto} \cup Bases(h, h[n].proto)

\* C21 as stated: optional() and every later use of the view it returns
\* (parse, safeParse, chain calls made on the view) leave the base node as it
\* was: its optional flag, its constraint values and its messages keep their
\* values, and the base gives every input the outcome it gave before.
ViewLeavesBaseUnchanged ==
    [][\A b \in Allocated(heap) :
          (last'.op = "optional" \/ b \in Bases(heap, last'.this))
          => /\ heap'[b] = heap[b]
             /\ \A d \in Scalars :
                    Parse(heap', b, d, Undefined) = Parse(heap, b, d, Undefined)]_vars

\* The first declared field, in declaration order, whose child schema rejects
\* its value.
FirstDeclaredFailingField == CHOOSE i \in FailingFields : \A j \in FailingFields : i <= j

\* The error of an Object parse that stops at declared field i: the child's
\* error, with the field's path where the child set none.
FieldError(i) ==
    LET key == LastFields[i].key
        at == Extend(EmptyPath, Str(key))
    IN  AttachPath(Parse(heap, LastFields[i].schema.ref, Index(LastData, key), at).error, at)

\* C22 as stated: an Object parse validates its declared fields in the order
\* they were declared, stops at the first field that fails and reports that
\* field's error; no partial result is returned.
FailFastInDeclarationOrder ==
    (/\ Parsed
     /\ heap[last.this].class = "RyuObj"
     /\ LastData.t = "object"
     /\ FailingFields # {})
    => last.out = Throw(FieldError(FirstDeclaredFailingField))

\* The constraint properties the parse of a primitive schema tests.
ConstraintProps(class) ==
    CASE class = "RyuString" ->
            {"_min", "_max", "_length", "_includes", "_startsWith", "_endsWith",
             "_email", "_url"}
      [] class = "RyuNum" -> {"_min", "_max", "_positive", "_negative"}
      [] class = "RyuBool" -> {"_true", "_false"}
      [] OTHER -> {}

\* The constraint properties configured on node n, own or inherited.
Configured(h, n) == {p \in ConstraintProps(h[n].class) : Active(h, n, p)}

\* The input d, of the node's type, breaks the configured constraint prop of
\* node n: the test parse makes for that constraint.
Violated(h, n, prop, d) ==
    LET val == ValOf(h, n, prop)
    IN  IF h[n].class = "RyuString"
        THEN CASE prop = "_min" -> Len(d.s) < val.n
               [] prop = "_max" -> Len(d.s) > val.n
               [] prop = "_length" -> Len(d.s) # val.n
               [] prop = "_includes" -> ~JsIncludes(d.s, val.s)
               [] prop = "_startsWith" -> ~JsStartsWith(d.s, val.s)
               [] prop = "_endsWith" -> ~JsEndsWith(d.s, val.s)
               [] prop = "_email" -> ~EmailTest(d.s)
               [] prop = "_url" -> ~UrlTest(d.s)
        ELSE IF h[n].class = "RyuNum"
        THEN CASE prop = "_min" -> d.n < val.n
               [] prop = "_max" -> d.n > val.n
               [] prop = "_positive" -> PositiveViolated(d.n)
               [] prop = "_negative" -> NegativeViolated(d.n)
        ELSE CASE prop = "_true" -> d.b # TRUE
               [] prop = "_false" -> d.b # FALSE

\* The typeof a primitive schema accepts.
TypeName(class) ==
    CASE class = "RyuString" -> "string"
      [] class = "RyuNum" -> "number"
      [] class = "RyuBool" -> "boolean"

\* The last call attached a constraint to a String or Number schema that
\* held exactly one other constraint, attached by the chain call before it.
SecondConstraintAttached ==
    /\ chained = 2
    /\ last.op \notin {"new", "optional", "parse", "safeParse"}
    /\ last.out.ok
    /\ heap[last.this].class \in {"RyuString", "RyuNum"}
    /\ Cardinality(Configured(heap, last.this)) = 2
    /\ ("_" \o last.op) \in Configured(heap, last.this)

\* C23 as stated: the parse of a primitive schema tests the type first and
\* then the configured constraints in the order the chain calls attached
\* them: an input of the wrong type is reported as such, and an input that
\* breaks both constraints is reported with the message of the one attached
\* first.
ErrorOfEarliestAttached ==
    SecondConstraintAttached =>
        LET n == last.this
            later == "_" \o last.op
            earlier == CHOOSE p \in Configured(heap, n) : p # later
        IN  \A d \in Scalars :
                LET r == Parse(heap, n, d, Undefined)
                IN  IF TypeOf(d) # TypeName(heap[n].class)
                    THEN ~r.ok /\ GetProp(r.error, "message")
                                    = Str("Expected " \o TypeName(heap[n].class))
                    ELSE (Violated(heap, n, earlier, d) /\ Violated(heap, n, later, d))
                         => ~r.ok /\ GetProp(r.error, "message") = ErrorMsgOf(heap, n, earlier)

\* this.constraintType as node n reads it, own or inherited: the
\* mutual-exclusion state (undefined is the empty state).
ExclusionState(h, n) == Get(h, n, "constraintType")

\* The chain calls that move a node into the mutual-exclusion state s.
Family(s) ==
    CASE s = Str("range") -> {"min", "max"}
      [] s = Str("length") -> {"length"}
      [] OTHER -> {s.s}

\* C24: the mutual-exclusion state of a node (String: empty, range, length;
\* Number: empty, positive, negative) leaves empty only by a successful chain
\* call of the family it then names, and never changes afterwards; a chain
\* call rejected as conflicting leaves the state and every constraint value
\* and message as they were.
ExclusionStateIsFinal ==
    [][/\ \A n \in Allocated(heap) :
            LET s == ExclusionState(heap, n)
                t == ExclusionState(heap', n)
            IN  /\ s # Undefined => t = s
                /\ (s = Undefined /\ t # Undefined)
                   => /\ chained' = chained + 1
                      /\ last'.out.ok
                      /\ last'.op \in Family(t)
       /\ (chained' = chained + 1 /\ ~last'.out.ok) => heap' = heap]_vars

\* C24 happens: min() or max() was rejected on a String node in the state
\* length, or positive() on a Number node in the state negative.
ExclusiveCallRejected ==
    /\ ~last.out.ok
    /\ \/ last.op \in {"min", "max"} /\ ExclusionState(heap, last.this) = Str("length")
       \/ last.op = "positive" /\ ExclusionState(heap, last.this) = Str("negative")

UnderlyingParse ==
    Parse(heap, last.this, LastData,
          IF Truthy(Get(heap, last.this, "_isRootPrimitive")) THEN RootPath ELSE EmptyPath)

\* C26: the error of a safeParse failure result carries the message and the
\* path of the error raised by the parse call safeParse makes, unchanged, and
\* its code is 1.
FailureCarriesParseError ==
    (SafeParsed /\ last.out.ok /\ GetProp(Envelope, "success") = Bool(FALSE)) =>
        LET error == GetProp(Envelope, "error")
        IN  /\ ~UnderlyingParse.ok
            /\ GetProp(error, "message") = GetProp(UnderlyingParse.error, "message")
            /\ GetProp(error, "path") = GetProp(UnderlyingParse.error, "path")
            /\ GetProp(error, "code") = Num(1)

\* C26 happens: safeParse on an Object schema reported the error of a field,
\* with the field's path.
FieldFailureReported ==
    /\ SafeParsed /\ last.out.ok
    /\ heap[last.this].class = "RyuObj"
    /\ GetProp(Envelope, "success") = Bool(FALSE)
    /\ GetProp(GetProp(Envelope, "error"), "path") = Arr(<<Str("a")>>)
    /\ GetProp(GetProp(Envelope, "error"), "message") = Str("Expected string")

\* The node the view n was derived from by optional().
BaseOf(h, n) == h[n].proto

ParseTerminates == <>(run.out # Pending)

\* C28 happens: the parse of an object that is its own field returned, with
\* the fields the schema tree declares.
CyclicInputParsed ==
    /\ run # Idle
    /\ run.mem = <<Obj(("a" :> Ptr(1)) @@ ("b" :> Str("x")))>>
    /\ last.args = <<Ptr(1)>>
    /\ run.out = Return(Obj(("a" :> Obj("b" :> Str("x"))) @@ ("b" :> Str("x"))))

\* C29: an optional view shares its base node's configuration live: a
\* constraint the base holds, attached by a chain call made after optional()
\* included, is enforced by the view on every parse of an input that is
\* neither undefined nor null, unless the view has set that same constraint
\* itself.
ViewEnforcesBaseConstraints ==
    \A v \in Views(heap) :
        LET b == BaseOf(heap, v)
        IN  \A p \in ConstraintProps(heap[b].class) :
                (/\ p \in DOMAIN heap[b].own
                 /\ Truthy(heap[b].own[p])
                 /\ p \notin DOMAIN heap[v].own)
                => \A d \in Scalars :
                       (TypeOf(d) = TypeName(heap[b].class) /\ Violated(heap, b, p, d))
                       => ~Parse(heap, v, d, Undefined).ok

\* C29 happens: min() was called on a String schema that had an optional
\* view; the view has set no min() itself and rejects a string too short for
\* the base.
LateBaseConstraintEnforced ==
    /\ last.op = "min" /\ last.out.ok
    /\ heap[last.this].class = "RyuString"
    /\ \E v \in Views(heap) :
           /\ BaseOf(heap, v) = last.this
           /\ "_min" \notin DOMAIN heap[v].own
           /\ \E d \in Scalars :
                  /\ d.t = "string"
                  /\ Violated(heap, last.this, "_min", d)
                  /\ ~Parse(heap, v, d, Undefined).ok

====
